---- MODULE Spec2Model ----
(***************************************************************************)
(* The CloudFront viewer-request function AppendHtmlFunction of            *)
(* infra/lib/infra-stack.ts: handler(event) rewrites request.uri.          *)
(*                                                                         *)
(* A JavaScript string is a sequence of one-character strings.  Each       *)
(* invocation of handler is a process with its own program counter and its *)
(* own locals (request, uri); request objects live in a heap indexed by    *)
(* object identity, so that "the same object" is something one can state.  *)
(* One step of a process is one statement of the handler.                  *)
(***************************************************************************)
EXTENDS Integers, Sequences, FiniteSets

\* ---------------------------------------------------------------- bounds
MaxLen == 4
NumInv == 2
MaxRuns == 2

\* ------------------------------------------------------------ characters
Slash == "/"
Dot == "."
Alphabet == {Slash, Dot, "a", "b"}

\* the literal '.html' of line 61
HtmlSuffix == <<".", "h", "t", "m", "l">>

\* the value of an absent property / an unset local: no string is equal to it
\* (a string is a sequence of one-character strings)
Undefined == <<"undefined">>

\* ------------------------------------------------------- string methods
\* a bug: startsWith written for includes
Includes_prefix(s, sub) ==
    /\ Len(s) >= Len(sub)
    /\ SubSeq(s, 1, Len(sub)) = sub

\* String.prototype.includes(sub)
Includes(s, sub) ==
    \E k \in 0..(Len(s) - Len(sub)) : SubSeq(s, k + 1, k + Len(sub)) = sub

\* String.prototype.endsWith(suf)
EndsWith(s, suf) ==
    /\ Len(s) >= Len(suf)
    /\ SubSeq(s, Len(s) - Len(suf) + 1, Len(s)) = suf

\* index of the first occurrence of the character c in s, 0 when there is none
FirstIndex(s, c) ==
    IF \E k \in 1..Len(s) : s[k] = c
    THEN CHOOSE k \in 1..Len(s) : s[k] = c /\ \A j \in 1..(k - 1) : s[j] # c
    ELSE 0

\* String.prototype.split(c) for a one-character separator: the pieces between
\* the separators; a string without separator (the empty one too) is one piece
RECURSIVE Split(_, _)
Split(s, c) ==
    LET k == FirstIndex(s, c) IN
    IF k = 0 THEN <<s>>
    ELSE <<SubSeq(s, 1, k - 1)>> \o Split(SubSeq(s, k + 1, Len(s)), c)

\* string concatenation, uri + '.html'
Concat(s, t) == s \o t

\* a bug: the '.' is looked for in the last path segment only
Guard1_lastSegment(u) ==
    LET pieces == Split(u, Slash) IN
    Includes(pieces[Len(pieces)], <<Dot>>) \/ EndsWith(u, <<Slash>>)

\* a bug: the test for a trailing slash is left out
Guard1_noSlash(u) == Includes(u, <<Dot>>)

\* a bug: the test for a file extension is left out
Guard1_noDot(u) == EndsWith(u, <<Slash>>)

\* a bug: off by one, '>= 2' for '> 2'
Guard2_ge(u) == Len(Split(u, Slash)) >= 2 /\ ~EndsWith(u, <<Slash>>)

\* a bug: off by one, '> 3' for '> 2'
Guard2_gt3(u) == Len(Split(u, Slash)) > 3 /\ ~EndsWith(u, <<Slash>>)

\* the two conditions of the handler
Guard1(u) == Includes(u, <<Dot>>) \/ EndsWith(u, <<Slash>>)
Guard2(u) == Len(Split(u, Slash)) > 2 /\ ~EndsWith(u, <<Slash>>)

\* the uri the handler leaves in the request, as a function of the uri it got
HandlerUri(u) ==
    IF Guard1(u) THEN u
    ELSE IF Guard2(u) THEN u
    ELSE Concat(u, HtmlSuffix)

\* ---------------------------------------------------------------- inputs
RECURSIVE StringsOfLen(_)
StringsOfLen(n) ==
    IF n = 0 THEN {<<>>}
    ELSE {Append(s, c) : s \in StringsOfLen(n - 1), c \in Alphabet}

BoundedStrings == UNION {StringsOfLen(n) : n \in 0..MaxLen}

About == <<"/", "a", "b", "o", "u", "t">>
BlogPostOne == <<"/", "b", "l", "o", "g", "/", "p", "o", "s", "t", "-", "o", "n", "e">>
StyleCss == <<"/", "s", "t", "y", "l", "e", ".", "c", "s", "s">>
BlogDir == <<"/", "b", "l", "o", "g", "/">>
ExamplePaths == {About, BlogPostOne, StyleCss, BlogDir}

Paths == BoundedStrings \cup ExamplePaths

Methods == {"GET", "HEAD"}

Inv == 1..NumInv
NoObj == 0

VARIABLES
    objs,   \* heap: object id -> request object [uri, method]
    event,  \* invocation -> the event it was called with [version, request]
    pc,     \* invocation -> statement about to run
    reqv,   \* invocation -> local 'request' (an object id)
    uri,    \* invocation -> local 'uri'
    ret,    \* invocation -> value returned (an object id), NoObj before return
    run,    \* invocation -> how many times the handler was started on the request
    hist    \* invocation -> the uri before the first run and after each return

vars == <<objs, event, pc, reqv, uri, ret, run, hist>>

MkRequest(p, m) == [uri |-> p, method |-> m]
MkEvent(i) == [version |-> "1.0", request |-> i]

\* one viewer request in flight (slot 1), with any path and method
Init ==
    /\ \E p \in Paths, m \in Methods :
         objs = [i \in Inv |-> IF i = 1 THEN MkRequest(p, m) ELSE MkRequest(<<Slash>>, "GET")]
    /\ event = [i \in Inv |-> MkEvent(i)]
    /\ pc = [i \in Inv |-> IF i = 1 THEN "l47" ELSE "idle"]
    /\ reqv = [i \in Inv |-> NoObj]
    /\ uri = [i \in Inv |-> Undefined]
    /\ ret = [i \in Inv |-> NoObj]
    /\ run = [i \in Inv |-> IF i = 1 THEN 1 ELSE 0]
    /\ hist = [i \in Inv |-> IF i = 1 THEN <<objs[i].uri>> ELSE <<>>]

\* NumInv viewer requests in flight at once, each on its own request object
ConcInit ==
    /\ objs \in [Inv -> {MkRequest(p, "GET") : p \in ExamplePaths}]
    /\ event = [i \in Inv |-> MkEvent(i)]
    /\ pc = [i \in Inv |-> "l47"]
    /\ reqv = [i \in Inv |-> NoObj]
    /\ uri = [i \in Inv |-> Undefined]
    /\ ret = [i \in Inv |-> NoObj]
    /\ run = [i \in Inv |-> 1]
    /\ hist = [i \in Inv |-> <<objs[i].uri>>]

\* return request;
Return(i) ==
    /\ ret' = [ret EXCEPT ![i] = reqv[i]]
    /\ pc' = [pc EXCEPT ![i] = "done"]
    /\ hist' = [hist EXCEPT ![i] = Append(@, objs[reqv[i]].uri)]

\* var request = event.request;
L47(i) ==
    /\ pc[i] = "l47"
    /\ reqv' = [reqv EXCEPT ![i] = event[i].request]
    /\ pc' = [pc EXCEPT ![i] = "l48"]
    /\ UNCHANGED <<objs, event, uri, ret, run, hist>>

\* a bug: 'uri' assigned without 'var', one global shared by all invocations
L48_shared(i) ==
    /\ pc[i] = "l48"
    /\ uri' = [j \in Inv |-> objs[reqv[i]].uri]
    /\ pc' = [pc EXCEPT ![i] = "l51"]
    /\ UNCHANGED <<objs, event, reqv, ret, run, hist>>

\* a bug: a property the request does not have is read (request.url)
L48_wrongField(i) ==
    /\ pc[i] = "l48"
    /\ uri' = [uri EXCEPT ![i] = Undefined]
    /\ pc' = [pc EXCEPT ![i] = "l51"]
    /\ UNCHANGED <<objs, event, reqv, ret, run, hist>>

\* var uri = request.uri;
L48(i) ==
    /\ pc[i] = "l48"
    /\ uri' = [uri EXCEPT ![i] = objs[reqv[i]].uri]
    /\ pc' = [pc EXCEPT ![i] = "l51"]
    /\ UNCHANGED <<objs, event, reqv, ret, run, hist>>

\* if (uri.includes('.') || uri.endsWith('/')) { return request; }
\* a method call on undefined throws a TypeError
L51(i) ==
    /\ pc[i] = "l51"
    /\ IF uri[i] = Undefined
       THEN pc' = [pc EXCEPT ![i] = "threw"] /\ UNCHANGED <<ret, hist>>
       ELSE IF Guard1(uri[i])
       THEN Return(i)
       ELSE pc' = [pc EXCEPT ![i] = "l56"] /\ UNCHANGED <<ret, hist>>
    /\ UNCHANGED <<objs, event, reqv, uri, run>>

\* if (uri.split('/').length > 2 && !uri.endsWith('/')) { return request; }
L56(i) ==
    /\ pc[i] = "l56"
    /\ IF Guard2(uri[i])
       THEN Return(i)
       ELSE pc' = [pc EXCEPT ![i] = "l61"] /\ UNCHANGED <<ret, hist>>
    /\ UNCHANGED <<objs, event, reqv, uri, run>>

\* a bug: the suffix is written without its dot
L61_noDot(i) ==
    /\ pc[i] = "l61"
    /\ objs' = [objs EXCEPT ![reqv[i]].uri = Concat(uri[i], <<"h", "t", "m", "l">>)]
    /\ pc' = [pc EXCEPT ![i] = "l63"]
    /\ UNCHANGED <<event, reqv, uri, ret, run, hist>>

\* a bug: the request is replaced by a new object holding the uri alone
L61_fresh(i) ==
    /\ pc[i] = "l61"
    /\ objs' = [objs EXCEPT ![reqv[i]] = [uri |-> Concat(uri[i], HtmlSuffix)]]
    /\ pc' = [pc EXCEPT ![i] = "l63"]
    /\ UNCHANGED <<event, reqv, uri, ret, run, hist>>

\* request.uri = uri + '.html';
L61(i) ==
    /\ pc[i] = "l61"
    /\ objs' = [objs EXCEPT ![reqv[i]].uri = Concat(uri[i], HtmlSuffix)]
    /\ pc' = [pc EXCEPT ![i] = "l63"]
    /\ UNCHANGED <<event, reqv, uri, ret, run, hist>>

\* return request;
L63(i) ==
    /\ pc[i] = "l63"
    /\ Return(i)
    /\ UNCHANGED <<objs, event, reqv, uri, run>>

\* the handler called again on the request it returned: fresh locals
Reapply(i) ==
    /\ pc[i] = "done"
    /\ run[i] < MaxRuns
    /\ run' = [run EXCEPT ![i] = @ + 1]
    /\ pc' = [pc EXCEPT ![i] = "l47"]
    /\ reqv' = [reqv EXCEPT ![i] = NoObj]
    /\ uri' = [uri EXCEPT ![i] = Undefined]
    /\ ret' = [ret EXCEPT ![i] = NoObj]
    /\ UNCHANGED <<objs, event, hist>>

Step(i) == L47(i) \/ L48(i) \/ L51(i) \/ L56(i) \/ L61(i) \/ L63(i) \/ Reapply(i)

Next == \E i \in Inv : Step(i)

Spec == Init /\ [][Next]_vars

\* the runtime runs every started handler to its end
FairSpec == Init /\ [][Next]_vars /\ \A i \in Inv : WF_vars(Step(i))

ConcSpec == ConcInit /\ [][Next]_vars


\* ------------------------------------------------------------ properties
Done(i) == pc[i] = "done"
\* the uri the current run of invocation i started from
RunArg(i) == hist[i][run[i]]
\* the uri of the object the current run returned
Result(i) == objs[ret[i]].uri

HasChar(p, c) == \E k \in 1..Len(p) : p[k] = c
SlashCount(p) == Cardinality({k \in 1..Len(p) : p[k] = Slash})
TopLevel(p) ==
    /\ Len(p) >= 2
    /\ p[1] = Slash
    /\ ~HasChar(p, Dot)
    /\ p[Len(p)] # Slash
    /\ \A k \in 2..Len(p) : p[k] # Slash
Nested(p) ==
    /\ Len(p) >= 1
    /\ p[1] = Slash
    /\ ~HasChar(p, Dot)
    /\ p[Len(p)] # Slash
    /\ SlashCount(p) >= 2

\* C1: a path of length >= 2 that begins with '/', has no '.', does not end
\* with '/' and has no other '/' comes back as the path followed by '.html'.
C1_TopLevelGetsHtml ==
    \A i \in Inv :
        (Done(i) /\ TopLevel(RunArg(i))) => Result(i) = RunArg(i) \o HtmlSuffix

C1_Witness ==
    \E i \in Inv : Done(i) /\ RunArg(i) = About /\ Result(i) = About \o HtmlSuffix

\* C2: a path that contains a '.' anywhere, or that ends with '/' (the root
\* '/' too), comes back with request.uri equal to the input path.
C2_DotOrSlashUnchanged ==
    \A i \in Inv :
        LET p == RunArg(i) IN
        (Done(i) /\ (HasChar(p, Dot) \/ (Len(p) >= 1 /\ p[Len(p)] = Slash)))
            => Result(i) = p

C2_Witness ==
    \E i \in Inv :
        /\ Done(i)
        /\ RunArg(i) = <<Dot, "a", Slash, "b">>
        /\ Result(i) = RunArg(i)

\* C3: a path that begins with '/', has no '.', does not end with '/' and has
\* more than one segment after the leading slash comes back unchanged.
C3_NestedUnchanged ==
    \A i \in Inv :
        (Done(i) /\ Nested(RunArg(i))) => Result(i) = RunArg(i)

C3_Witness ==
    \E i \in Inv : Done(i) /\ RunArg(i) = BlogPostOne /\ Result(i) = BlogPostOne

\* C4 as stated: the handler applied to '/about' gives '/about.html', and
\* applied again to that result gives '/about.html.html'.
C4_Original ==
    \A i \in Inv :
        (Done(i) /\ Len(hist[i]) >= 3 /\ hist[i][1] = About)
            => /\ hist[i][2] = About \o HtmlSuffix
               /\ hist[i][3] = (About \o HtmlSuffix) \o HtmlSuffix

\* C4 as amended: the handler applied to '/about' gives '/about.html', and
\* applied again to that result gives '/about.html' once more.
C4_Amended ==
    \A i \in Inv :
        (Done(i) /\ Len(hist[i]) >= 3 /\ hist[i][1] = About)
            => /\ hist[i][2] = About \o HtmlSuffix
               /\ hist[i][3] = About \o HtmlSuffix

C4_Witness ==
    \E i \in Inv : Done(i) /\ run[i] = 2 /\ Len(hist[i]) = 3 /\ hist[i][1] = About

\* C5: whatever string the request's uri is (the empty one, one without a
\* leading '/', one made of '/' and '.' only), a started handler never throws
\* and does return: the returned value is the request, and its uri a string.
C5_Total ==
    /\ [](\A i \in Inv : pc[i] # "threw")
    /\ \A i \in Inv :
         (pc[i] = "l47") ~>
             (Done(i) /\ ret[i] = event[i].request /\ Result(i) # Undefined)

C5_Witness ==
    \E i \in Inv : Done(i) /\ hist[i][1] = <<>> /\ ret[i] # NoObj

\* C6: with invocations on distinct request objects interleaved in any order,
\* each one's result is the result of the handler run alone on its own
\* input, no step of one invocation changes the request, the locals or the
\* position of another, and equal inputs give equal outputs.
C6_Isolated ==
    /\ [](\A i \in Inv : Done(i) => Result(i) = HandlerUri(RunArg(i)))
    /\ [](\A i, j \in Inv :
            (Done(i) /\ Done(j) /\ RunArg(i) = RunArg(j)) => Result(i) = Result(j))
    /\ [][\A i \in Inv : Step(i) =>
            \A j \in Inv \ {i} :
                /\ objs'[j] = objs[j]
                /\ event'[j] = event[j]
                /\ pc'[j] = pc[j]
                /\ reqv'[j] = reqv[j]
                /\ uri'[j] = uri[j]
                /\ ret'[j] = ret[j]
                /\ hist'[j] = hist[j]]_vars

C6_Witness ==
    \E i, j \in Inv :
        /\ i # j
        /\ pc[i] = "l51" /\ uri[i] = About
        /\ pc[j] = "l51" /\ uri[j] = StyleCss

\* C7: the value returned is the request object the event carried, and no
\* step changes the event or any field of a request other than uri.
C7_Frame ==
    /\ [](\A i \in Inv : Done(i) => ret[i] = event[i].request)
    /\ [][/\ event' = event
          /\ \A o \in Inv : /\ DOMAIN objs'[o] = DOMAIN objs[o]
                            /\ objs'[o].method = objs[o].method]_vars

C7_Witness ==
    \E i \in Inv :
        /\ Done(i)
        /\ ret[i] = event[i].request
        /\ objs[ret[i]].method = "HEAD"
        /\ Result(i) = <<Slash, "a">> \o HtmlSuffix

\* C8: the output differs from the input exactly when the input has no '.',
\* does not end with '/' and splits on '/' into at most 2 pieces; then the
\* output is the input followed by '.html'.  Among the paths that begin with
\* '/' those are the top-level extensionless ones, and never a nested one.
C8_Characterisation ==
    \A i \in Inv :
        Done(i) =>
            LET p == RunArg(i)
                suffixed == /\ ~HasChar(p, Dot)
                            /\ ~(Len(p) >= 1 /\ p[Len(p)] = Slash)
                            /\ Len(Split(p, Slash)) <= 2
            IN  /\ (Result(i) # p) <=> suffixed
                /\ suffixed => Result(i) = p \o HtmlSuffix
                /\ ~suffixed => Result(i) = p
                /\ (Len(p) >= 1 /\ p[1] = Slash)
                       => ((Result(i) # p) <=> TopLevel(p))
                /\ SlashCount(p) >= 2 => Result(i) = p

C8_Witness ==
    \E i \in Inv :
        /\ Done(i)
        /\ RunArg(i) = <<"a", Slash, "b">>
        /\ Result(i) = <<"a", Slash, "b">> \o HtmlSuffix

\* C9: every uri the handler returns contains '.', ends with '/' or splits on
\* '/' into more than 2 pieces, and the handler run on it returns it unchanged.
C9_OutputsAreFixedPoints ==
    \A i \in Inv :
        /\ Done(i) =>
              \/ HasChar(Result(i), Dot)
              \/ (Len(Result(i)) >= 1 /\ Result(i)[Len(Result(i))] = Slash)
              \/ Len(Split(Result(i), Slash)) > 2
        /\ \A k \in 2..(Len(hist[i]) - 1) : hist[i][k + 1] = hist[i][k]

C9_Witness ==
    \E i \in Inv :
        /\ Done(i)
        /\ Len(hist[i]) = 3
        /\ hist[i][1] = <<Slash, "b">>
        /\ hist[i][3] = hist[i][2]

\* the handler without the conjunct '!uri.endsWith("/")' in its second guard
RefHandlerUri(u) ==
    IF Includes(u, <<Dot>>) \/ EndsWith(u, <<Slash>>) THEN u
    ELSE IF Len(Split(u, Slash)) > 2 THEN u
    ELSE u \o HtmlSuffix

\* C10: a uri that reaches the second guard does not end with '/', and the
\* handler returns what the handler without '!uri.endsWith("/")' returns.
C10_ConjunctRedundant ==
    \A i \in Inv :
        /\ pc[i] = "l56" => ~EndsWith(uri[i], <<Slash>>)
        /\ Done(i) => Result(i) = RefHandlerUri(RunArg(i))

C10_Witness ==
    \E i \in Inv : pc[i] = "l56" /\ uri[i] = BlogPostOne

====
